---- MODULE Spec2Model ----
(***************************************************************************)
(* MeshCore SMS gateway (src/gateway.py): the per-sender daily rate        *)
(* limiter, the message history and its persistence, and the routing of    *)
(* mesh commands and inbound SMS webhooks, as a state machine.             *)
(*                                                                         *)
(* Every handler is a coroutine on one cooperative event loop, so an       *)
(* action is the code that runs between two awaits that really suspend:    *)
(* the carrier call (hass.async_add_executor_job) and the mesh service     *)
(* call (hass.services.async_call).  Texts are sequences of one-character  *)
(* strings so that strip / split / upper / the phone pattern are computed  *)
(* as Python computes them.                                                *)
(***************************************************************************)
EXTENDS Integers, Sequences, FiniteSets, TLC

(***************************************************************************)
(* Bounds of the model.                                                    *)
(***************************************************************************)
\* handlers (mesh tasks, webhooks, service calls) that may be in flight together
MaxInFlight == 2
\* handlers started in one behaviour
MaxEvents == 2
\* failures of the carrier, the mesh service or the store in one behaviour
MaxFaults == 1
\* SMS commands of the one-after-another scenario (SpecSeq)
MaxSeqCmds == 3
\* largest configured daily_limit explored (config_flow allows 1..1000)
MaxLimit == 2
\* calendar days after the day of construction
MaxDay == 1
\* restarts (unload/crash followed by setup) in one behaviour
MaxRestarts == 1
\* entries of the history snapshot left in storage by an earlier run (SpecResumed)
PriorLen == 49
\* gateway instances made for one config entry in one process (SpecReload)
MaxInstances == 3

(***************************************************************************)
(* Program constants.                                                      *)
(***************************************************************************)
max_history == 50
\* LIST shows message_history[-5:]
ListWindow == 5

CONF_BOT_NAME == "sms_bot"

(***************************************************************************)
(* Text primitives of Python's str, on sequences of characters.            *)
(***************************************************************************)
Whitespace == {" ", "\t", "\n", "\r"}

Digits == {"0", "1", "2", "3", "4", "5", "6", "7", "8", "9"}

LowerCase == <<"a","b","c","d","e","f","g","h","i","j","k","l","m",
               "n","o","p","q","r","s","t","u","v","w","x","y","z">>

UpperCase == <<"A","B","C","D","E","F","G","H","I","J","K","L","M",
               "N","O","P","Q","R","S","T","U","V","W","X","Y","Z">>

\* s[i:] with 0-based i >= 0
DropFirst(s, n) == SubSeq(s, n + 1, Len(s))

\* s[:n]
TakeFirst(s, n) == SubSeq(s, 1, IF n < Len(s) THEN n ELSE Len(s))

\* s[-n:] for n > 0
TakeLast(s, n) == SubSeq(s, IF Len(s) > n THEN Len(s) - n + 1 ELSE 1, Len(s))

UpperChar(c) ==
    IF \E i \in 1..26 : LowerCase[i] = c
    THEN UpperCase[CHOOSE i \in 1..26 : LowerCase[i] = c]
    ELSE c

\* str.upper()
Upper(s) == [i \in 1..Len(s) |-> UpperChar(s[i])]

LowerChar(c) ==
    IF \E i \in 1..26 : UpperCase[i] = c
    THEN LowerCase[CHOOSE i \in 1..26 : UpperCase[i] = c]
    ELSE c

\* str.lower()
Lower(s) == [i \in 1..Len(s) |-> LowerChar(s[i])]

\* sub in s
Contains(s, sub) ==
    \E i \in 0..(Len(s) - Len(sub)) : SubSeq(s, i + 1, i + Len(sub)) = sub

\* number of leading whitespace characters
LeadingWs(s) ==
    IF \E i \in 1..Len(s) : s[i] \notin Whitespace
    THEN (CHOOSE i \in 1..Len(s) :
            s[i] \notin Whitespace /\ \A j \in 1..(i - 1) : s[j] \in Whitespace) - 1
    ELSE Len(s)

\* length of the leading run of non-whitespace characters
TokenLen(s) ==
    IF \E i \in 1..Len(s) : s[i] \in Whitespace
    THEN (CHOOSE i \in 1..Len(s) :
            s[i] \in Whitespace /\ \A j \in 1..(i - 1) : s[j] \notin Whitespace) - 1
    ELSE Len(s)

TrailingWs(s) ==
    IF \E i \in 1..Len(s) : s[i] \notin Whitespace
    THEN Len(s) - (CHOOSE i \in 1..Len(s) :
            s[i] \notin Whitespace /\ \A j \in (i + 1)..Len(s) : s[j] \in Whitespace)
    ELSE Len(s)

\* str.strip()
Strip(s) == SubSeq(s, LeadingWs(s) + 1, Len(s) - TrailingWs(s))

\* str.split(None, maxsplit): runs of whitespace separate the tokens; after
\* maxsplit splits the remainder (leading whitespace removed) is the last part
RECURSIVE Split(_, _)
Split(s, maxsplit) ==
    LET r == DropFirst(s, LeadingWs(s))
    IN  IF r = <<>> THEN <<>>
        ELSE IF maxsplit = 0 THEN <<r>>
        ELSE <<TakeFirst(r, TokenLen(r))>> \o Split(DropFirst(r, TokenLen(r)), maxsplit - 1)

\* str.split(): no limit
SplitAll(s) == Split(s, Len(s))

\* str.startswith(c) for a one-character prefix
StartsWith(s, c) == Len(s) > 0 /\ s[1] = c

\* mutant of PHONE_REGEX: a national number of at least seven digits is required
PHONE_REGEX_long(p) ==
    LET r == IF StartsWith(p, "+") THEN Tail(p) ELSE p
    IN  /\ Len(r) >= 7
        /\ Len(r) <= 15
        /\ r[1] \in Digits \ {"0"}
        /\ \A i \in 2..Len(r) : r[i] \in Digits

\* PHONE_REGEX = ^\+?[1-9]\d{1,14}$ under re.match ($ also matches before one
\* trailing newline)
PHONE_REGEX(p) ==
    LET q == IF Len(p) > 0 /\ p[Len(p)] = "\n" THEN SubSeq(p, 1, Len(p) - 1) ELSE p
        r == IF StartsWith(q, "+") THEN Tail(q) ELSE q
    IN  /\ Len(r) >= 2
        /\ Len(r) <= 15
        /\ r[1] \in Digits \ {"0"}
        /\ \A i \in 2..Len(r) : r[i] \in Digits

\* masked_phone = f"{phone_number[:3]}***{phone_number[-4:]}"
MaskedPhone(phone_number) ==
    TakeFirst(phone_number, 3) \o <<"*", "*", "*">> \o TakeLast(phone_number, 4)

(***************************************************************************)
(* Inputs: mesh senders, mesh texts, phones and SMS bodies.                *)
(***************************************************************************)
Senders == {"A", "B"}

Recipients == {CONF_BOT_NAME, "other_node"}

TextSmsValid == <<"S","M","S"," ","+","1","5","5","5","1","2","3","4","5","6","7"," ","h","i">>
TextSms12345 == <<"S","M","S"," ","1","2","3","4","5"," ","h","i">>
TextSmsZero == <<"s","m","s"," ","0","1","2","3","4","5"," ","h","i">>
TextSmsNoBody == <<"S","M","S"," ","+","1","5","5","5","1","2","3","4","5","6","7">>
TextHelp == <<"h","e","l","p">>
TextStatus == <<"S","T","A","T","U","S">>
TextList == <<"L","i","s","t">>
TextUnknown == <<"p","i","n","g"," ","m","e">>
TextBlank == <<" "," ">>

MeshTexts ==
    {TextSmsValid, TextSmsZero, TextSmsNoBody,
     TextHelp, TextStatus, TextList, TextUnknown, TextBlank}

PhoneX == <<"+","1","5","5","5","7","6","5","4","3","2","1">>

BodyDirect == <<"@","a","l","i","c","e"," ","h","e","l","l","o"," ","t","h","e","r","e">>
BodyNote == <<"j","u","s","t"," ","a"," ","n","o","t","e">>
BodyAtOnly == <<"@","a","l","i","c","e">>

\* a missing form field reads as None, an empty one as ""; both are falsy
SmsBodies == {BodyDirect, BodyNote, BodyAtOnly, <<>>}

ConfirmationText == <<"M","e","s","s","a","g","e"," ","d","e","l","i","v","e","r","e","d"," ","t","o"," ",
                      "M","e","s","h","C","o","r","e"," ","n","e","t","w","o","r","k">>

(***************************************************************************)
(* State.                                                                  *)
(***************************************************************************)
VARIABLES
    config,             \* config_entry.data: daily_limit, enable_broadcast, delivery_confirmation
    daily_counts,       \* self.daily_counts: a function on the keys present in the defaultdict
    last_reset,         \* self.last_reset: a datetime [day, tick]
    message_history,    \* self.message_history
    store,              \* what storage.Store holds for this entry
    today,              \* calendar day of the clock
    tick,               \* instants of the clock read so far by history appends
    timer_due,          \* the async_track_time_interval callback is due
    tasks,              \* the handlers in flight, by slot
    started,            \* handlers started so far
    restarts,           \* restarts so far
    faults,             \* failures of the carrier, the mesh service or the store so far
    cmds_today,         \* history variable: valid SMS commands started per sender during the current day
    last,               \* the step taken last and the handler it ran
    variant,            \* the gateway implementation of the repository that is set up
    stats,              \* the counters the simple and the enhanced implementation keep
    entry               \* the gateway instances made for the config entry and what each has registered

vars == <<config, daily_counts, last_reset, message_history, store, today, tick,
          timer_due, tasks, started, restarts, faults, cmds_today, last, variant, stats,
          entry>>

Slots == 1..MaxInFlight

\* dt_util.now()
Now == [day |-> today, tick |-> tick]

\* datetime.isoformat() and dt_util.parse_datetime()
IsoFormat(dt) == <<dt.day, "T", dt.tick>>

ParseDatetime(text) == [day |-> text[1], tick |-> text[3]]

\* defaultdict(int): an absent key reads as 0
EmptyCounts == [s \in {} |-> 0]

Get(counts, key) == IF key \in DOMAIN counts THEN counts[key] ELSE 0

\* daily_counts[key] = value (the key is created when absent)
Put(counts, key, value) ==
    [s \in (DOMAIN counts) \cup {key} |-> IF s = key THEN value ELSE counts[s]]

\* reading daily_counts[key] on the defaultdict creates the key
Touch(counts, key) == Put(counts, key, Get(counts, key))

\* a JSON object: the set of its members
ToJsonObject(counts) == {<<k, counts[k]>> : k \in DOMAIN counts}

FromJsonObject(members) ==
    [k \in {m[1] : m \in members} |-> (CHOOSE m \in members : m[1] = k)[2]]

Idle ==
    [pc |-> "idle", kind |-> "none", sender |-> "", phone |-> <<>>, text |-> <<>>,
     content |-> <<>>, recipient |-> <<>>, outcome |-> "", mesh |-> <<>>, sends |-> <<>>,
     raised |-> FALSE, ack |-> "", log |-> <<>>, runs |-> 0]

\* messages_sent / messages_received of the simple gateway, len(msg_times) of
\* the enhanced integration
NoStats == [messages_sent |-> 0, messages_received |-> 0, msg_times |-> 0]

\* async_setup_entry has run once: instance 1 is in hass.data and has its
\* listener, its timer and its webhook; counts[i] is daily_counts of instance i
OneInstance ==
    [loaded |-> 1, made |-> 1, listeners |-> {1}, timers |-> {1}, webhooks |-> {1},
     counts |-> <<EmptyCounts>>]

NoData ==
    [present |-> FALSE, daily_counts |-> {}, message_history |-> <<>>, last_reset |-> <<>>]

(***************************************************************************)
(* History entries, persistence.                                           *)
(***************************************************************************)
\* mutant of IncomingEntry: the entry is logged as an outgoing one
IncomingEntry_as_outgoing(now, from_number, message_body) ==
    [timestamp |-> IsoFormat(now), direction |-> "outgoing",
     phone |-> from_number, message |-> message_body, sender |-> "system",
     sid |-> <<"SM", now.tick>>]

\* the dict _handle_webhook appends
IncomingEntry(now, from_number, message_body) ==
    [timestamp |-> IsoFormat(now), direction |-> "incoming",
     phone |-> from_number, message |-> message_body]

\* the dict send_sms appends; result.sid is the carrier's id of the message
OutgoingEntry(now, phone_number, message, sender) ==
    [timestamp |-> IsoFormat(now), direction |-> "outgoing",
     phone |-> phone_number, message |-> message, sender |-> sender,
     sid |-> <<"SM", now.tick>>]

\* the data _async_save_data hands to the store
SaveData(counts, history, reset) ==
    [present |-> TRUE,
     daily_counts |-> ToJsonObject(counts),
     message_history |-> TakeLast(history, max_history),
     last_reset |-> IsoFormat(reset)]

\* mutant of LoadData: the counts are cleared unless last_reset is after today
LoadData_clears_today(data, now) ==
    IF ~data.present
    THEN [daily_counts |-> EmptyCounts, message_history |-> <<>>, last_reset |-> now]
    ELSE [daily_counts |->
              IF now.day >= ParseDatetime(data.last_reset).day
              THEN EmptyCounts
              ELSE FromJsonObject(data.daily_counts),
          message_history |-> data.message_history,
          last_reset |-> now]

\* _async_load_data on a new instance (daily_counts = {}, message_history = [],
\* last_reset = now): the fields after the load
LoadData(data, now) ==
    IF ~data.present
    THEN [daily_counts |-> EmptyCounts, message_history |-> <<>>, last_reset |-> now]
    ELSE [daily_counts |->
              IF now.day > ParseDatetime(data.last_reset).day
              THEN EmptyCounts
              ELSE FromJsonObject(data.daily_counts),
          message_history |-> data.message_history,
          last_reset |-> now]

(***************************************************************************)
(* Mesh commands: _process_meshcore_message and what it calls.             *)
(***************************************************************************)
\* mutant of check_rate_limit: the last send of the quota is refused
check_rate_limit_strict(counts, sender_id, daily_limit) ==
    Get(counts, sender_id) + 1 < daily_limit

\* _check_rate_limit
check_rate_limit(counts, sender_id, daily_limit) == Get(counts, sender_id) < daily_limit

\* hass.services.async_call("meshcore", "send_message", ...): the call is
\* recorded, and when it raises the exception leaves the handler
send_meshcore_message(h, recipient, message, mesh_ok) ==
    [h EXCEPT !.mesh = Append(@, [service |-> "send_message", key |-> "recipient",
                                  recipient |-> recipient, message |-> message]),
              !.raised = ~mesh_ok]

\* hass.services.async_call("meshcore", "broadcast", ...)
broadcast_to_meshcore(h, message, mesh_ok) ==
    [h EXCEPT !.mesh = Append(@, [service |-> "broadcast", key |-> "",
                                  recipient |-> <<>>, message |-> message]),
              !.raised = ~mesh_ok]

\* the twilio messages.create call send_sms hands to the executor
CarrierCall(phone_number, message, sender) ==
    [to |-> phone_number, body |-> <<"[MeshCore:", sender, "] ", message>>]

RECURSIVE SumCounts(_, _)
SumCounts(counts, keys) ==
    IF keys = {} THEN 0
    ELSE LET k == CHOOSE x \in keys : TRUE
         IN  counts[k] + SumCounts(counts, keys \ {k})

\* mutant of HelpText: the usage shown is always 0
HelpText_no_usage(counts, sender_id, daily_limit) ==
    [fmt |-> "SMS Gateway Commands / Daily limit: {} messages / Used today: {}",
     args |-> <<daily_limit, 0>>]

\* _send_help: the reply text is its format and the values put in it
HelpText(counts, sender_id, daily_limit) ==
    [fmt |-> "SMS Gateway Commands / Daily limit: {} messages / Used today: {}",
     args |-> <<daily_limit, Get(counts, sender_id)>>]

\* _send_status
StatusText(counts, sender_id, cfg) ==
    [fmt |-> "Gateway Status / Messages today: {} / Your usage: {}/{} / Broadcast: {}",
     args |-> <<SumCounts(counts, DOMAIN counts), Get(counts, sender_id),
                cfg.daily_limit, cfg.enable_broadcast>>]

\* _send_history: one line per entry of message_history[-5:]
HistoryText(history) ==
    IF history = <<>>
    THEN [fmt |-> "No recent messages", args |-> <<>>]
    ELSE LET recent == TakeLast(history, ListWindow)
         IN  [fmt |-> "Recent Messages (last 5)",
              args |-> [i \in 1..Len(recent) |->
                          <<ParseDatetime(recent[i].timestamp).tick,
                            IF recent[i].direction = "outgoing" THEN "->" ELSE "<-",
                            TakeLast(recent[i].phone, 4),
                            TakeFirst(recent[i].message, 30)>>]]

\* mutant of validate_sms: the phone token is not checked
validate_sms_format_only(parts) ==
    IF Len(parts) < 3 THEN "invalid_format" ELSE "ok"

\* the two checks _handle_sms_command makes on the parts of the command
validate_sms(parts) ==
    IF Len(parts) < 3 THEN "invalid_format"
    ELSE IF ~PHONE_REGEX(parts[2]) THEN "invalid_phone"
    ELSE "ok"

\* _handle_sms_command up to its first suspension: the handler and the counts after
handle_sms_command(h, counts, cfg, mesh_ok) ==
    LET parts == Split(h.text, 2)
    IN  IF validate_sms(parts) = "invalid_format"
        THEN [h |-> [send_meshcore_message(h, h.sender,
                        [fmt |-> "Invalid format. Use: SMS <phone> <message>", args |-> <<>>],
                        mesh_ok)
                     EXCEPT !.outcome = "invalid_format", !.pc = "done"],
              counts |-> counts]
        ELSE IF validate_sms(parts) = "invalid_phone"
        THEN [h |-> [send_meshcore_message(h, h.sender,
                        [fmt |-> "Invalid phone number format: {}", args |-> <<parts[2]>>],
                        mesh_ok)
                     EXCEPT !.outcome = "invalid_phone", !.pc = "done"],
              counts |-> counts]
        ELSE IF ~check_rate_limit(counts, h.sender, cfg.daily_limit)
        THEN [h |-> [send_meshcore_message(h, h.sender,
                        [fmt |-> "Daily limit reached ({} messages)",
                         args |-> <<cfg.daily_limit>>],
                        mesh_ok)
                     EXCEPT !.outcome = "rate_limited", !.pc = "done",
                            !.phone = parts[2], !.content = parts[3]],
              counts |-> Touch(counts, h.sender)]
        ELSE [h |-> [h EXCEPT !.phone = parts[2], !.content = parts[3],
                              !.sends = Append(@, CarrierCall(parts[2], parts[3], h.sender)),
                              !.pc = "await_carrier"],
              counts |-> Touch(counts, h.sender)]

\* mutant of handle_sms_result: a failed send is counted too
handle_sms_result_counts_failures(h, counts, success, mesh_ok) ==
    IF success
    THEN [h |-> [send_meshcore_message(h, h.sender,
                    [fmt |-> "SMS sent to {}", args |-> <<MaskedPhone(h.phone)>>], TRUE)
                 EXCEPT !.outcome = "sent", !.pc = "await_reply"],
          counts |-> Put(counts, h.sender, Get(counts, h.sender) + 1)]
    ELSE [h |-> [send_meshcore_message(h, h.sender,
                    [fmt |-> "Failed to send SMS. Please try again.", args |-> <<>>],
                    mesh_ok)
                 EXCEPT !.outcome = "send_failed", !.pc = "done"],
          counts |-> Put(counts, h.sender, Get(counts, h.sender) + 1)]

\* mutant of handle_sms_result: a failed send is not answered
handle_sms_result_silent_failure(h, counts, success, mesh_ok) ==
    IF success
    THEN [h |-> [send_meshcore_message(h, h.sender,
                    [fmt |-> "SMS sent to {}", args |-> <<MaskedPhone(h.phone)>>], TRUE)
                 EXCEPT !.outcome = "sent", !.pc = "await_reply"],
          counts |-> Put(counts, h.sender, Get(counts, h.sender) + 1)]
    ELSE [h |-> [h EXCEPT !.outcome = "send_failed", !.pc = "done"], counts |-> counts]

\* _handle_sms_command after send_sms returned success: the count is updated and
\* the confirmation is sent, or the failure reply is sent
handle_sms_result(h, counts, success, mesh_ok) ==
    IF success
    THEN [h |-> [send_meshcore_message(h, h.sender,
                    [fmt |-> "SMS sent to {}", args |-> <<MaskedPhone(h.phone)>>], TRUE)
                 EXCEPT !.outcome = "sent", !.pc = "await_reply"],
          counts |-> Put(counts, h.sender, Get(counts, h.sender) + 1)]
    ELSE [h |-> [send_meshcore_message(h, h.sender,
                    [fmt |-> "Failed to send SMS. Please try again.", args |-> <<>>],
                    mesh_ok)
                 EXCEPT !.outcome = "send_failed", !.pc = "done"],
          counts |-> counts]

\* _process_meshcore_message up to its first suspension
process_meshcore_message(data, counts, history, cfg, mesh_ok) ==
    LET h == [Idle EXCEPT !.kind = "mesh", !.sender = data.sender_id,
                          !.text = Strip(data.text)]
        command_upper == SplitAll(Upper(h.text))[1]
    IN  IF data.recipient # CONF_BOT_NAME
        THEN [h |-> [h EXCEPT !.outcome = "ignored", !.pc = "done"], counts |-> counts]
        ELSE IF h.text = <<>>
        THEN [h |-> [h EXCEPT !.outcome = "empty", !.pc = "done"], counts |-> counts]
        ELSE IF command_upper = <<"H","E","L","P">> \/ command_upper = <<"?">>
        THEN [h |-> [send_meshcore_message(h, h.sender,
                        HelpText(counts, h.sender, cfg.daily_limit), mesh_ok)
                     EXCEPT !.outcome = "help", !.pc = "done"],
              counts |-> Touch(counts, h.sender)]
        ELSE IF command_upper = <<"S","T","A","T","U","S">>
        THEN [h |-> [send_meshcore_message(h, h.sender,
                        StatusText(counts, h.sender, cfg), mesh_ok)
                     EXCEPT !.outcome = "status", !.pc = "done"],
              counts |-> Touch(counts, h.sender)]
        ELSE IF command_upper = <<"L","I","S","T">>
        THEN [h |-> [send_meshcore_message(h, h.sender, HistoryText(history), mesh_ok)
                     EXCEPT !.outcome = "list", !.pc = "done"],
              counts |-> counts]
        ELSE IF command_upper = <<"S","M","S">>
        THEN handle_sms_command(h, counts, cfg, mesh_ok)
        ELSE [h |-> [send_meshcore_message(h, h.sender,
                        [fmt |-> "Unknown command '{}'. Send HELP for commands.",
                         args |-> <<command_upper>>], mesh_ok)
                     EXCEPT !.outcome = "unknown", !.pc = "done"],
              counts |-> counts]

\* mutant of send_sms: the message is logged whether or not the carrier took it
send_sms_always_logs(history, now, phone_number, message, sender, carrier_ok) ==
    Append(history, OutgoingEntry(now, phone_number, message, sender))

\* send_sms after the executor job: a TwilioException is caught and gives False,
\* a result is logged to the history
send_sms(history, now, phone_number, message, sender, carrier_ok) ==
    IF carrier_ok
    THEN Append(history, OutgoingEntry(now, phone_number, message, sender))
    ELSE history

\* mutant of async_save: a failed save empties the store
async_save_clears(old, data, save_ok) == IF save_ok THEN data ELSE NoData

\* store.async_save(data): the store holds data unless the write fails
async_save(old, data, save_ok) == IF save_ok THEN data ELSE old

(***************************************************************************)
(* Inbound SMS: _handle_webhook.                                           *)
(***************************************************************************)
BroadcastName == <<"b","r","o","a","d","c","a","s","t">>

\* mutant of ParseRecipient: the "@" stays on the recipient
ParseRecipient_keeps_at(message_body) ==
    LET parts == Split(message_body, 1)
    IN  IF StartsWith(message_body, "@") /\ Len(parts) = 2
        THEN [recipient |-> parts[1], actual_message |-> parts[2]]
        ELSE [recipient |-> BroadcastName, actual_message |-> message_body]

\* the recipient and the text _handle_webhook parses from the body
ParseRecipient(message_body) ==
    LET parts == Split(message_body, 1)
    IN  IF StartsWith(message_body, "@") /\ Len(parts) = 2
        THEN [recipient |-> Tail(parts[1]), actual_message |-> parts[2]]
        ELSE [recipient |-> BroadcastName, actual_message |-> message_body]

\* mutant of webhook_end: no except clause, the exception leaves the handler
webhook_end_propagates(h, outcome, failed) ==
    [h EXCEPT !.outcome = outcome, !.pc = "done", !.raised = failed,
              !.ack = IF failed THEN "raised" ELSE "returned_none"]

\* the end of _handle_webhook: it returns None after its last statement, after
\* the early return, or after `except Exception` has logged what was raised
webhook_end(h, outcome, failed) ==
    [h EXCEPT !.outcome = outcome, !.pc = "done", !.raised = FALSE,
              !.ack = "returned_none",
              !.log = IF failed THEN Append(@, "Error handling webhook") ELSE @]

\* _handle_webhook up to its first mesh call: the handler and the history after
handle_webhook(from_number, message_body, history, cfg, now) ==
    LET h == [Idle EXCEPT !.kind = "webhook", !.sender = "system",
                          !.phone = from_number, !.text = message_body]
        parsed == ParseRecipient(message_body)
        text == [fmt |-> "SMS from {}: {}",
                 args |-> <<TakeLast(from_number, 4), parsed.actual_message>>]
        routed == [h EXCEPT !.recipient = parsed.recipient,
                            !.content = parsed.actual_message, !.pc = "hook_await_mesh"]
    IN  IF from_number = <<>> \/ message_body = <<>>
        THEN [h |-> webhook_end(h, "missing", FALSE), history |-> history]
        ELSE [h |-> IF parsed.recipient = BroadcastName /\ cfg.enable_broadcast
                    THEN broadcast_to_meshcore(routed, text, TRUE)
                    ELSE send_meshcore_message(routed, parsed.recipient, text, TRUE),
              history |-> Append(history, IncomingEntry(now, from_number, message_body))]

(***************************************************************************)
(* The simple gateway (custom_components/meshcore_sms/gateway.py).  Its    *)
(* handlers share nothing but two counters, so each runs to its end in one *)
(* step, given what the services it calls will answer.                     *)
(***************************************************************************)
HexLower == Digits \cup {"a", "b", "c", "d", "e", "f"}

\* len(recipient) >= 6 and all(c in '0123456789abcdef' for c in recipient.lower())
HexLike(recipient) ==
    Len(recipient) >= 6 /\ \A i \in 1..Len(recipient) : LowerChar(recipient[i]) \in HexLower

\* _send_meshcore_message of the simple gateway: by node_id first; when that call
\* raises and the recipient looks like a key, by pubkey_prefix; failures are logged
simple_send_meshcore_message(h, recipient, message, env) ==
    LET by_node == [service |-> "send_message", key |-> "node_id",
                    recipient |-> recipient, message |-> message]
        by_key == [service |-> "send_message", key |-> "pubkey_prefix",
                   recipient |-> TakeFirst(recipient, 6), message |-> message]
    IN  IF ~env.has_send
        THEN [h EXCEPT !.log = Append(@, "meshcore.send_message service not found")]
        ELSE IF env.node_ok
        THEN [h EXCEPT !.mesh = Append(@, by_node)]
        ELSE IF HexLike(recipient)
        THEN [h EXCEPT !.mesh = @ \o <<by_node, by_key>>,
                       !.log = IF env.pubkey_ok THEN @
                               ELSE Append(@, "Failed to send by pubkey_prefix")]
        ELSE [h EXCEPT !.mesh = Append(@, by_node),
                       !.log = Append(@, "Could not send - node_id not found")]

\* _broadcast_to_meshcore of the simple gateway: channel 0 unless configured; when
\* the call raises, a persistent notification is created, outside any try
simple_broadcast_to_meshcore(h, message, env) ==
    LET call == [service |-> "send_channel_message", key |-> "channel_idx",
                 recipient |-> <<"0">>, message |-> message]
    IN  IF ~env.has_channel
        THEN [h EXCEPT !.log = Append(@, "meshcore.send_channel_message service not found")]
        ELSE IF env.channel_ok
        THEN [h EXCEPT !.mesh = Append(@, call)]
        ELSE [h EXCEPT !.mesh = Append(@, call),
                       !.log = Append(@, "Failed to send channel message"),
                       !.raised = ~env.notify_ok]

\* the messages.create call of the simple gateway's send_sms
SimpleCarrierCall(phone, message, sender) ==
    LET sender_prefix == IF sender = <<"service_call">> THEN <<"HA">>
                         ELSE IF sender = <<"system">> THEN <<"System">>
                         ELSE IF StartsWith(sender, "@") THEN Tail(sender)
                         ELSE TakeFirst(sender, 10)
    IN  [to |-> phone, body |-> <<"[", sender_prefix, "] ", message>>]

\* send_sms of the simple gateway: the call, and the error logged when it raises
simple_send_sms(h, phone, message, sender, env) ==
    [h EXCEPT !.sends = Append(@, SimpleCarrierCall(phone, message, sender)),
              !.log = IF env.carrier_ok THEN @ ELSE Append(@, "Twilio error")]

\* the end of the simple gateway's _handle_webhook
simple_webhook_end(h, outcome, failed) ==
    [h EXCEPT !.outcome = outcome, !.pc = "done", !.raised = FALSE,
              !.ack = "returned_none",
              !.log = IF failed THEN Append(@, "Webhook error") ELSE @]

\* mutant of simple_handle_webhook: the confirmation is sent whatever the configuration
simple_handle_webhook_always_confirms(from_number, message_body, cfg, env) ==
    LET h == [Idle EXCEPT !.kind = "webhook", !.sender = "system",
                          !.phone = from_number, !.text = message_body]
        parsed == ParseRecipient(message_body)
        text == [fmt |-> "SMS from {}: {}",
                 args |-> <<TakeLast(from_number, 4), parsed.actual_message>>]
        h1 == [h EXCEPT !.recipient = parsed.recipient, !.content = parsed.actual_message]
        routed == IF parsed.recipient = BroadcastName
                  THEN IF cfg.enable_broadcast
                       THEN simple_broadcast_to_meshcore(h1, text, env)
                       ELSE [h1 EXCEPT !.log = Append(@, "Broadcast disabled")]
                  ELSE simple_send_meshcore_message(h1, parsed.recipient, text, env)
    IN  IF from_number = <<>> \/ message_body = <<>>
        THEN simple_webhook_end(h, "missing", FALSE)
        ELSE IF routed.raised
        THEN simple_webhook_end(routed, "notify_failed", TRUE)
        ELSE simple_webhook_end(
                 simple_send_sms(routed, from_number, ConfirmationText, <<"system">>, env),
                 "routed", FALSE)

\* _handle_webhook of the simple gateway
simple_handle_webhook(from_number, message_body, cfg, env) ==
    LET h == [Idle EXCEPT !.kind = "webhook", !.sender = "system",
                          !.phone = from_number, !.text = message_body]
        parsed == ParseRecipient(message_body)
        text == [fmt |-> "SMS from {}: {}",
                 args |-> <<TakeLast(from_number, 4), parsed.actual_message>>]
        h1 == [h EXCEPT !.recipient = parsed.recipient, !.content = parsed.actual_message]
        routed == IF parsed.recipient = BroadcastName
                  THEN IF cfg.enable_broadcast
                       THEN simple_broadcast_to_meshcore(h1, text, env)
                       ELSE [h1 EXCEPT !.log = Append(@, "Broadcast disabled")]
                  ELSE simple_send_meshcore_message(h1, parsed.recipient, text, env)
    IN  IF from_number = <<>> \/ message_body = <<>>
        THEN simple_webhook_end(h, "missing", FALSE)
        ELSE IF routed.raised
        THEN simple_webhook_end(routed, "notify_failed", TRUE)
        ELSE IF cfg.delivery_confirmation
        THEN simple_webhook_end(
                 simple_send_sms(routed, from_number, ConfirmationText, <<"system">>, env),
                 "routed", FALSE)
        ELSE simple_webhook_end(routed, "routed", FALSE)

\* _process_meshcore_message of the simple gateway, run as one more task of the
\* event whose record is h: the record and messages_sent after
simple_process_meshcore_message(h, data, cfg, st, env) ==
    LET sender == IF data.sender_id = <<>> THEN <<"unknown">> ELSE data.sender_id
        message == data.text
        cmd == SplitAll(Upper(Strip(message)))[1]
        parts == Split(message, 2)
        reply(fmt, args) ==
            simple_send_meshcore_message([h EXCEPT !.runs = @ + 1], sender,
                                         [fmt |-> fmt, args |-> args], env)
    IN  IF message = <<>>
        THEN [h |-> [h EXCEPT !.runs = @ + 1, !.outcome = "empty"], sent |-> st.messages_sent]
        ELSE IF Strip(message) = <<>>
        THEN [h |-> [h EXCEPT !.runs = @ + 1, !.outcome = "index_error", !.raised = TRUE],
              sent |-> st.messages_sent]
        ELSE IF cmd = <<"H","E","L","P">> \/ cmd = <<"?">>
        THEN [h |-> [reply("SMS Gateway Commands", <<>>) EXCEPT !.outcome = "help"],
              sent |-> st.messages_sent]
        ELSE IF cmd = <<"S","T","A","T","U","S">>
        THEN [h |-> [reply("Gateway Online / sent {} / received {} / Daily limit: {}",
                           <<st.messages_sent, st.messages_received, cfg.daily_limit>>)
                     EXCEPT !.outcome = "status"],
              sent |-> st.messages_sent]
        ELSE IF cmd = <<"S","M","S">>
        THEN IF Len(parts) < 3
             THEN [h |-> [reply("Format: SMS <phone> <message>", <<>>)
                          EXCEPT !.outcome = "invalid_format"],
                   sent |-> st.messages_sent]
             ELSE IF ~PHONE_REGEX(parts[2])
             THEN [h |-> [reply("Invalid phone: {}", <<parts[2]>>)
                          EXCEPT !.outcome = "invalid_phone"],
                   sent |-> st.messages_sent]
             ELSE LET called == simple_send_sms([h EXCEPT !.runs = @ + 1, !.phone = parts[2],
                                                           !.content = parts[3]],
                                                parts[2], parts[3], sender, env)
                  IN  IF env.carrier_ok
                      THEN [h |-> [simple_send_meshcore_message(called, sender,
                                       [fmt |-> "SMS sent to {}",
                                        args |-> <<TakeLast(parts[2], 4)>>], env)
                                   EXCEPT !.outcome = "sent"],
                            sent |-> st.messages_sent + 1]
                      ELSE [h |-> [simple_send_meshcore_message(called, sender,
                                       [fmt |-> "Failed to send SMS", args |-> <<>>], env)
                                   EXCEPT !.outcome = "send_failed"],
                            sent |-> st.messages_sent]
        ELSE [h |-> [reply("Unknown command: {}", <<cmd>>) EXCEPT !.outcome = "unknown"],
              sent |-> st.messages_sent]

\* the event types _async_subscribe_to_meshcore of the simple gateway listens to
SimpleEventTypes ==
    {<<"m","e","s","h","c","o","r","e","_","m","e","s","s","a","g","e","_",
       "r","e","c","e","i","v","e","d">>,
     <<"m","e","s","h","c","o","r","e",".","m","e","s","s","a","g","e","_",
       "r","e","c","e","i","v","e","d">>,
     <<"m","e","s","h","c","o","r","e","_","m","e","s","s","a","g","e">>,
     <<"m","e","s","h","c","o","r","e",".","m","e","s","s","a","g","e">>}

\* how many listeners of the simple gateway pass an event of this type to
\* handle_meshcore_event: the one of the type, and the one on "*" when the
\* type has "meshcore" in it
SimpleListeners(event_type) ==
    (IF event_type \in SimpleEventTypes THEN 1 ELSE 0)
    + (IF Contains(Lower(event_type), <<"m","e","s","h","c","o","r","e">>) THEN 1 ELSE 0)

\* handle_meshcore_event for each listener the event reaches: a task per call
\* when the recipient is the bot, each run here to its end
simple_handle_meshcore_event(event_type, data, cfg, st, env) ==
    LET h == [Idle EXCEPT !.kind = "mesh", !.sender = "", !.text = data.text,
                          !.recipient = data.sender_id, !.pc = "done"]
        n == IF data.recipient = CONF_BOT_NAME THEN SimpleListeners(event_type) ELSE 0
        none == [h |-> [h EXCEPT !.outcome = "ignored"], sent |-> st.messages_sent]
        first == simple_process_meshcore_message(h, data, cfg, st, env)
        second == simple_process_meshcore_message(
                      first.h, data, cfg, [st EXCEPT !.messages_sent = first.sent], env)
    IN  IF n = 0 THEN none ELSE IF n = 1 THEN first ELSE second

(***************************************************************************)
(* The enhanced integration (custom_components/meshcore_sms/__init__.py).  *)
(***************************************************************************)
\* len(target_user) >= 6 and all(c in '0123456789abcdefABCDEF' for c in target_user)
EnhancedHexLike(target_user) ==
    Len(target_user) >= 6
    /\ \A i \in 1..Len(target_user) :
          target_user[i] \in HexLower \cup {"A", "B", "C", "D", "E", "F"}

\* send_sms_to_meshcore_enhanced: one blocking send_message call, keyed by
\* pubkey_prefix for six or more hex characters and by node_id otherwise; what
\* it raises is sorted into an error
send_sms_to_meshcore_enhanced(h, target_user, message, from_sms, env) ==
    LET hex == EnhancedHexLike(target_user)
    IN  [h EXCEPT !.mesh = Append(@, [service |-> "send_message",
                                      key |-> IF hex THEN "pubkey_prefix" ELSE "node_id",
                                      recipient |-> IF hex THEN Lower(target_user)
                                                    ELSE target_user,
                                      message |-> [fmt |-> "SMS from ***{}: {}",
                                                   args |-> <<TakeLast(from_sms, 4), message>>]]),
                  !.outcome = IF env.node_ok THEN "delivered" ELSE env.error]

\* str.find("]"): the index, from 0, of the first "]"
FindBracket(s) == (CHOOSE i \in 1..Len(s) : s[i] = "]" /\ \A j \in 1..(i - 1) : s[j] # "]") - 1

\* handle_sms_enhanced: the handler record (outcome is the reply chosen) and
\* len(msg_times) after
handle_sms_enhanced(from_number, body, st, env) ==
    LET message_body == Strip(body)
        h == [Idle EXCEPT !.kind = "webhook", !.sender = "system", !.phone = from_number,
                          !.text = body, !.pc = "done", !.ack = "response_200"]
        bracket_end == FindBracket(message_body)
        target_user == SubSeq(message_body, 3, bracket_end)
        user_message == Strip(DropFirst(message_body, bracket_end + 1))
    IN  IF ~env.post_ok
        THEN [h |-> [h EXCEPT !.outcome = "error_processing",
                              !.log = Append(@, "Error in enhanced SMS handler")],
              msg_times |-> st.msg_times]
        ELSE IF Lower(message_body) \in {<<"c","o","m","m","a","n","d","s">>, <<"c","m","d">>, <<"?">>}
        THEN [h |-> [h EXCEPT !.outcome = "commands"], msg_times |-> st.msg_times]
        ELSE IF Lower(message_body) = <<"s","t","a","t","u","s">>
        THEN [h |-> [h EXCEPT !.outcome = "status"], msg_times |-> st.msg_times + 1]
        ELSE IF TakeFirst(message_body, 2) = <<"@","[">> /\ Contains(message_body, <<"]">>)
        THEN IF target_user # <<>> /\ user_message # <<>>
             THEN [h |-> send_sms_to_meshcore_enhanced(
                             [h EXCEPT !.recipient = target_user, !.content = user_message],
                             target_user, user_message, from_number, env),
                   msg_times |-> st.msg_times + 1]
             ELSE [h |-> [h EXCEPT !.outcome = "format"], msg_times |-> st.msg_times]
        ELSE [h |-> [h EXCEPT !.outcome = "unknown"], msg_times |-> st.msg_times]

\* the leading digits of a text
DigitRun(r) ==
    CHOOSE n \in 0..Len(r) :
        /\ \A i \in 1..n : r[i] \in Digits
        /\ n = Len(r) \/ r[n + 1] \notin Digits

\* re.match(r'^\+?1?[0-9]{10,15}\s+', text): the length of the match, 0 for none
PhonePrefixMatch(text) ==
    LET plus == IF StartsWith(text, "+") THEN 1 ELSE 0
        r == DropFirst(text, plus)
        d == DigitRun(r)
        ws == LeadingWs(DropFirst(r, d))
    IN  IF ws >= 1 /\ ((d >= 10 /\ d <= 15) \/ (d = 16 /\ r[1] = "1"))
        THEN plus + d + ws
        ELSE 0

\* any(keyword in str(event_type).upper() for keyword in ['MSG', 'MESSAGE', 'TEXT', 'RECEIVE'])
IsMessageEvent(event_type) ==
    \E keyword \in {<<"M","S","G">>, <<"M","E","S","S","A","G","E">>, <<"T","E","X","T">>,
                     <<"R","E","C","E","I","V","E">>} :
        Contains(Upper(event_type), keyword)

\* on_meshcore_event_enhanced and the send_meshcore_to_sms_enhanced task it
\* creates: the recipient of the event is never read
on_meshcore_event_enhanced(event, env) ==
    LET payload == event.payload
        sender == IF payload.pubkey_prefix # <<>> THEN payload.pubkey_prefix ELSE <<"unknown">>
        message_text == payload.text
        n == PhonePrefixMatch(message_text)
        phone_number == Strip(TakeFirst(message_text, n))
        sms_message == Strip(DropFirst(message_text, n))
        h == [Idle EXCEPT !.kind = "mesh", !.sender = "", !.recipient = sender,
                          !.text = message_text, !.pc = "done"]
    IN  IF IsMessageEvent(event.event_type) /\ message_text # <<>> /\ n > 0
           /\ sms_message # <<>>
        THEN [h EXCEPT !.runs = 1, !.phone = phone_number, !.content = sms_message,
                       !.outcome = IF env.carrier_ok THEN "sent" ELSE "send_failed",
                       !.sends = <<[to |-> phone_number,
                                    body |-> <<"@[", TakeFirst(sender, 8), "]: ", sms_message>>]>>,
                       !.log = IF env.carrier_ok THEN @ ELSE Append(@, "Error sending SMS")]
        ELSE [h EXCEPT !.outcome = "ignored"]

(***************************************************************************)
(* Specification.                                                          *)
(***************************************************************************)
\* the defaults of const.py (broadcast on, confirmation off) and of
\* config_flow.py (broadcast off, confirmation on), with every daily_limit
Configs ==
    {[daily_limit |-> n, enable_broadcast |-> b, delivery_confirmation |-> ~b] :
        n \in 1..MaxLimit, b \in BOOLEAN}

\* every text from sender A, a command from sender B, and an event for another
\* node
MeshEvents ==
    {[recipient |-> CONF_BOT_NAME, sender_id |-> "A", text |-> x] : x \in MeshTexts}
    \cup {[recipient |-> CONF_BOT_NAME, sender_id |-> "B", text |-> TextSms12345],
          [recipient |-> "other_node", sender_id |-> "A", text |-> TextSmsValid]}

NoCommands == [s \in Senders |-> 0]

Quiescent == \A t \in Slots : tasks[t].pc = "idle"

FreeSlot == CHOOSE t \in Slots : tasks[t].pc = "idle" /\ \A u \in 1..(t - 1) : tasks[u].pc # "idle"

\* the failures among the outcomes of a step stay within the budget
Failing(outcomes) ==
    LET n == Cardinality({i \in DOMAIN outcomes : ~outcomes[i]})
    IN  /\ faults + n <= MaxFaults
        /\ faults' = faults + n

\* a handler reaches its next await (it stays in its slot) or ends (the slot is free)
Run(t, op, h) ==
    /\ tasks' = [tasks EXCEPT ![t] = IF h.pc = "done" THEN Idle ELSE h]
    /\ last' = [op |-> op, h |-> h]

Step(op) == last' = [op |-> op, h |-> Idle]

\* the text passes both checks of _handle_sms_command
ValidSms(data) ==
    LET message == Strip(data.text)
        parts == Split(message, 2)
    IN  /\ data.recipient = CONF_BOT_NAME
        /\ message # <<>>
        /\ SplitAll(Upper(message))[1] = <<"S","M","S">>
        /\ Len(parts) = 3
        /\ PHONE_REGEX(parts[2])

\* a new instance after async_setup on a fresh installation
Init ==
    /\ config \in Configs
    /\ daily_counts = EmptyCounts
    /\ last_reset = [day |-> 0, tick |-> 0]
    /\ message_history = <<>>
    /\ store = NoData
    /\ today = 0
    /\ tick = 0
    /\ timer_due = FALSE
    /\ tasks = [t \in Slots |-> Idle]
    /\ started = 0
    /\ restarts = 0
    /\ faults = 0
    /\ cmds_today = NoCommands
    /\ last = [op |-> "init", h |-> Idle]
    /\ variant = "main"
    /\ stats = NoStats
    /\ entry = OneInstance

\* the "meshcore.message_received" listener creates a task, which runs
\* _process_meshcore_message up to the carrier call or to its end
MeshEvent(data, mesh_ok) ==
    /\ \E t \in Slots : tasks[t].pc = "idle"
    /\ LET r == process_meshcore_message(data, daily_counts, message_history, config, mesh_ok)
       IN  /\ mesh_ok \/ Len(r.h.mesh) > 0
           /\ Run(FreeSlot, "mesh_event", r.h)
           /\ daily_counts' = r.counts
    /\ Failing(<<mesh_ok>>)
    /\ started' = started + 1
    /\ cmds_today' = IF ValidSms(data)
                     THEN [cmds_today EXCEPT ![data.sender_id] = @ + 1]
                     ELSE cmds_today
    /\ UNCHANGED <<entry, variant, stats, config, last_reset, message_history, store, today, tick, timer_due, restarts>>

\* _handle_sms_command resumes with the result of send_sms
CarrierReturn(t, carrier_ok, mesh_ok) ==
    /\ tasks[t].pc = "await_carrier"
    /\ carrier_ok => mesh_ok
    /\ Failing(<<carrier_ok, mesh_ok>>)
    /\ LET h == tasks[t]
       IN  /\ message_history' = send_sms(message_history, Now, h.phone, h.content, h.sender,
                                          carrier_ok)
           /\ tick' = IF carrier_ok THEN tick + 1 ELSE tick
           /\ LET r == handle_sms_result(h, daily_counts, carrier_ok, mesh_ok)
              IN  /\ Run(t, "carrier_return", r.h)
                  /\ daily_counts' = r.counts
    /\ UNCHANGED <<entry, variant, stats, config, last_reset, store, today, timer_due, started, restarts, cmds_today>>

\* _handle_sms_command resumes after the confirmation reply and saves
ReplyReturn(t, mesh_ok, save_ok) ==
    /\ tasks[t].pc = "await_reply"
    /\ ~mesh_ok => save_ok
    /\ Failing(<<mesh_ok, save_ok>>)
    /\ Run(t, "reply_return",
           [tasks[t] EXCEPT !.raised = ~mesh_ok \/ ~save_ok, !.pc = "done"])
    /\ store' = IF mesh_ok
                THEN async_save(store, SaveData(daily_counts, message_history, last_reset),
                                save_ok)
                ELSE store
    /\ UNCHANGED <<entry, variant, stats, config, daily_counts, last_reset, message_history, today, tick, timer_due,
                   started, restarts, cmds_today>>

\* the webhook is posted: _handle_webhook runs up to its mesh call or to its end
WebhookPost(from_number, message_body) ==
    /\ \E t \in Slots : tasks[t].pc = "idle"
    /\ LET r == handle_webhook(from_number, message_body, message_history, config, Now)
       IN  /\ Run(FreeSlot, "webhook_post", r.h)
           /\ message_history' = r.history
           /\ tick' = IF r.history = message_history THEN tick ELSE tick + 1
    /\ started' = started + 1
    /\ UNCHANGED <<entry, variant, stats, config, daily_counts, last_reset, store, today, timer_due, restarts,
                   faults, cmds_today>>

\* _handle_webhook resumes after the mesh call: an exception ends it in the
\* except clause; otherwise the confirmation SMS is sent when configured, or the
\* data is saved
HookMeshReturn(t, mesh_ok, save_ok) ==
    /\ tasks[t].pc = "hook_await_mesh"
    /\ (~mesh_ok \/ config.delivery_confirmation) => save_ok
    /\ Failing(<<mesh_ok, save_ok>>)
    /\ LET h == tasks[t]
       IN  IF ~mesh_ok
           THEN /\ Run(t, "hook_mesh_return", webhook_end(h, "mesh_failed", TRUE))
                /\ store' = store
           ELSE IF config.delivery_confirmation
           THEN /\ Run(t, "hook_mesh_return",
                       [h EXCEPT !.sends = Append(@, CarrierCall(h.phone, ConfirmationText,
                                                                 "system")),
                                 !.pc = "hook_await_carrier"])
                /\ store' = store
           ELSE /\ Run(t, "hook_mesh_return",
                       webhook_end(h, IF save_ok THEN "routed" ELSE "save_failed", ~save_ok))
                /\ store' = async_save(store,
                                       SaveData(daily_counts, message_history, last_reset),
                                       save_ok)
    /\ UNCHANGED <<entry, variant, stats, config, daily_counts, last_reset, message_history, today, tick, timer_due,
                   started, restarts, cmds_today>>

\* _handle_webhook resumes with the result of the confirmation send_sms and saves
HookCarrierReturn(t, carrier_ok, save_ok) ==
    /\ tasks[t].pc = "hook_await_carrier"
    /\ Failing(<<carrier_ok, save_ok>>)
    /\ LET h == tasks[t]
           history == send_sms(message_history, Now, h.phone, ConfirmationText, "system",
                               carrier_ok)
       IN  /\ message_history' = history
           /\ tick' = IF carrier_ok THEN tick + 1 ELSE tick
           /\ Run(t, "hook_carrier_return",
                  webhook_end(h, IF save_ok THEN "routed" ELSE "save_failed", ~save_ok))
           /\ store' = async_save(store, SaveData(daily_counts, history, last_reset), save_ok)
    /\ UNCHANGED <<entry, variant, stats, config, daily_counts, last_reset, today, timer_due, started, restarts,
                   cmds_today>>

\* the send_sms service: handle_send_sms calls send_sms(phone, message, "service_call")
ServiceCall(phone_number, message) ==
    /\ \E t \in Slots : tasks[t].pc = "idle"
    /\ Run(FreeSlot, "service_call",
           [Idle EXCEPT !.kind = "service", !.sender = "service_call",
                        !.phone = phone_number, !.content = message,
                        !.sends = <<CarrierCall(phone_number, message, "service_call")>>,
                        !.pc = "svc_await_carrier"])
    /\ started' = started + 1
    /\ UNCHANGED <<entry, variant, stats, config, daily_counts, last_reset, message_history, store, today, tick,
                   timer_due, restarts, faults, cmds_today>>

ServiceCarrierReturn(t, carrier_ok) ==
    /\ tasks[t].pc = "svc_await_carrier"
    /\ Failing(<<carrier_ok>>)
    /\ LET h == tasks[t]
       IN  /\ message_history' = send_sms(message_history, Now, h.phone, h.content,
                                           h.sender, carrier_ok)
           /\ tick' = IF carrier_ok THEN tick + 1 ELSE tick
           /\ Run(t, "service_carrier_return",
                  [h EXCEPT !.outcome = IF carrier_ok THEN "sent" ELSE "send_failed",
                            !.pc = "done"])
    /\ UNCHANGED <<entry, variant, stats, config, daily_counts, last_reset, store, today, timer_due, started,
                   restarts, cmds_today>>

\* mutant of async_daily_reset: each call also drops the oldest history entry
async_daily_reset_trims(counts, history, now) ==
    [daily_counts |-> EmptyCounts,
     message_history |-> IF history = <<>> THEN history ELSE Tail(history),
     last_reset |-> now]

\* _async_daily_reset: the fields after daily_counts.clear() and
\* last_reset = dt_util.now()
async_daily_reset(counts, history, now) ==
    [daily_counts |-> EmptyCounts, message_history |-> history, last_reset |-> now]

\* _async_daily_reset, called by the one-day interval timer: the reset, then the save
AsyncDailyReset(save_ok) ==
    /\ timer_due
    /\ Failing(<<save_ok>>)
    /\ LET r == async_daily_reset(daily_counts, message_history, Now)
       IN  /\ daily_counts' = r.daily_counts
           /\ message_history' = r.message_history
           /\ last_reset' = r.last_reset
           /\ store' = async_save(store,
                                  SaveData(r.daily_counts, r.message_history, r.last_reset),
                                  save_ok)
    /\ timer_due' = FALSE
    /\ Step("daily_reset")
    /\ UNCHANGED <<entry, variant, stats, config, today, tick, tasks, started, restarts, cmds_today>>

\* midnight: the interval timer set at setup comes due during the new day
Midnight ==
    /\ today < MaxDay
    /\ ~timer_due
    /\ today' = today + 1
    /\ timer_due' = TRUE
    /\ cmds_today' = NoCommands
    /\ Step("midnight")
    /\ UNCHANGED <<entry, variant, stats, config, daily_counts, last_reset, message_history, store, tick, tasks,
                   started, restarts, faults>>

\* the entry is unloaded and the process stops (async_unload saves) or the
\* process dies (nothing is saved), and in a new process a new instance is
\* constructed and loads what the store holds
Restart(saved) ==
    /\ restarts < MaxRestarts
    /\ Quiescent
    /\ LET data == async_save(store, SaveData(daily_counts, message_history, last_reset),
                              saved)
           loaded == LoadData(data, Now)
       IN  /\ store' = data
           /\ daily_counts' = loaded.daily_counts
           /\ message_history' = loaded.message_history
           /\ last_reset' = loaded.last_reset
    /\ timer_due' = FALSE
    /\ restarts' = restarts + 1
    /\ last' = [op |-> IF saved THEN "reload" ELSE "crash_restart", h |-> Idle]
    /\ UNCHANGED <<entry, variant, stats, config, today, tick, tasks, started, faults, cmds_today>>

Next ==
    \/ \E data \in MeshEvents, mesh_ok \in BOOLEAN :
          started < MaxEvents /\ MeshEvent(data, mesh_ok)
    \/ \E t \in Slots, carrier_ok \in BOOLEAN, mesh_ok \in BOOLEAN :
          CarrierReturn(t, carrier_ok, mesh_ok)
    \/ \E t \in Slots, mesh_ok \in BOOLEAN, save_ok \in BOOLEAN : ReplyReturn(t, mesh_ok, save_ok)
    \/ \E body \in SmsBodies : started < MaxEvents /\ WebhookPost(PhoneX, body)
    \/ \E t \in Slots, mesh_ok \in BOOLEAN, save_ok \in BOOLEAN :
          HookMeshReturn(t, mesh_ok, save_ok)
    \/ \E t \in Slots, carrier_ok \in BOOLEAN, save_ok \in BOOLEAN :
          HookCarrierReturn(t, carrier_ok, save_ok)
    \/ started < MaxEvents /\ ServiceCall(PhoneX, <<"h","i">>)
    \/ \E t \in Slots, carrier_ok \in BOOLEAN : ServiceCarrierReturn(t, carrier_ok)
    \/ \E save_ok \in BOOLEAN : AsyncDailyReset(save_ok)
    \/ Midnight
    \/ \E saved \in BOOLEAN : Restart(saved)

Spec == Init /\ [][Next]_vars

(***************************************************************************)
(* The gateway resumed on the day of an earlier run that left PriorLen     *)
(* inbound messages in storage: the instance after async_setup loaded them.*)
(***************************************************************************)
PriorHistory ==
    [i \in 1..PriorLen |->
        IncomingEntry([day |-> 0, tick |-> i - 1], PhoneX, <<"h","i">>)]

PriorData == SaveData(EmptyCounts, PriorHistory, [day |-> 0, tick |-> 0])

InitResumed ==
    /\ config \in Configs
    /\ store = PriorData
    /\ today = 0
    /\ tick = PriorLen
    /\ daily_counts = LoadData(PriorData, [day |-> 0, tick |-> PriorLen]).daily_counts
    /\ message_history = LoadData(PriorData, [day |-> 0, tick |-> PriorLen]).message_history
    /\ last_reset = LoadData(PriorData, [day |-> 0, tick |-> PriorLen]).last_reset
    /\ timer_due = FALSE
    /\ tasks = [t \in Slots |-> Idle]
    /\ started = 0
    /\ restarts = 0
    /\ faults = 0
    /\ cmds_today = NoCommands
    /\ last = [op |-> "init", h |-> Idle]
    /\ variant = "main"
    /\ stats = NoStats
    /\ entry = OneInstance

SpecResumed == InitResumed /\ [][Next]_vars

(***************************************************************************)
(* Valid SMS commands handled one after another with a carrier that always *)
(* succeeds: a command starts, and the timer fires, only when no handler   *)
(* is in flight.                                                           *)
(***************************************************************************)
SeqEvents ==
    {[recipient |-> CONF_BOT_NAME, sender_id |-> "A", text |-> TextSmsValid],
     [recipient |-> CONF_BOT_NAME, sender_id |-> "B", text |-> TextSms12345]}

NextSeq ==
    \/ \E data \in SeqEvents, mesh_ok \in BOOLEAN :
          Quiescent /\ started < MaxSeqCmds /\ MeshEvent(data, mesh_ok)
    \/ \E t \in Slots, mesh_ok \in BOOLEAN : CarrierReturn(t, TRUE, mesh_ok)
    \/ \E t \in Slots, mesh_ok \in BOOLEAN, save_ok \in BOOLEAN : ReplyReturn(t, mesh_ok, save_ok)
    \/ \E save_ok \in BOOLEAN : Quiescent /\ AsyncDailyReset(save_ok)
    \/ Midnight

SpecSeq == Init /\ [][NextSeq]_vars

(***************************************************************************)
(* The three implementations of the repository side by side: the gateway   *)
(* of src/gateway.py, the simple gateway and the enhanced integration.  A  *)
(* handler of the last two is one step, given what the services it calls   *)
(* will answer.                                                            *)
(***************************************************************************)
BodyHex == <<"@","a","1","b","2","c","3"," ","h","i">>
BodyBracketHex == <<"@","[","A","1","b","2","c","3","]"," ","h","i">>
BodyBracketName == <<"@","[","j","o","h","n","]"," ","h","i">>
BodyBracketOnly == <<"@","[","j","o","h","n","]">>
BodyStatus == <<"s","t","a","t","u","s">>
BodyCmd == <<"c","m","d">>

SimpleBodies == SmsBodies \cup {BodyHex}
EnhancedBodies ==
    {BodyBracketHex, BodyBracketName, BodyBracketOnly, BodyStatus, BodyCmd, BodyNote}

SenderBob == <<"b","o","b">>
SenderKey == <<"a","1","b","2","c","3","d","4","e","5","f","6">>
TypeRaw == <<"m","e","s","h","c","o","r","e","_","r","a","w","_","e","v","e","n","t">>
TypeMessage == <<"m","e","s","h","c","o","r","e","_","m","e","s","s","a","g","e">>
TypeState == <<"s","t","a","t","e","_","c","h","a","n","g","e","d">>
TypeMsgRecv == <<"c","o","n","t","a","c","t","_","m","s","g","_","r","e","c","v">>
TypeAdvert == <<"a","d","v","e","r","t","i","s","e","m","e","n","t">>
TextPhoneFirst == DropFirst(TextSmsValid, 4)

SimpleMeshEvents ==
    {[event_type |-> ty, recipient |-> CONF_BOT_NAME, sender_id |-> SenderBob, text |-> x] :
        ty \in {TypeMessage, TypeRaw},
        x \in {TextSmsValid, TextSms12345, TextSmsNoBody, TextHelp, TextStatus, TextUnknown,
               TextBlank, <<>>}}
    \cup {[event_type |-> TypeMessage, recipient |-> CONF_BOT_NAME, sender_id |-> SenderKey,
           text |-> TextHelp],
          [event_type |-> TypeMessage, recipient |-> "other_node", sender_id |-> SenderBob,
           text |-> TextSmsValid],
          [event_type |-> TypeState, recipient |-> CONF_BOT_NAME, sender_id |-> SenderBob,
           text |-> TextSmsValid]}

EnhancedEvents ==
    {[recipient |-> r, event_type |-> TypeMsgRecv,
      payload |-> [pubkey_prefix |-> SenderKey, text |-> x]] :
        r \in {CONF_BOT_NAME, "other_node"},
        x \in {TextPhoneFirst, TextSmsValid, TakeFirst(TextPhoneFirst, 13), <<>>}}
    \cup {[recipient |-> CONF_BOT_NAME, event_type |-> TypeAdvert,
           payload |-> [pubkey_prefix |-> SenderKey, text |-> TextPhoneFirst]],
          [recipient |-> CONF_BOT_NAME, event_type |-> TypeMsgRecv,
           payload |-> [pubkey_prefix |-> <<>>, text |-> TextPhoneFirst]]}

\* what the services outside the program answer to one handler: whether the
\* meshcore services are registered, whether each call succeeds, and the
\* error the enhanced integration reads from a failed send
AllOk ==
    [has_send |-> TRUE, has_channel |-> TRUE, node_ok |-> TRUE, pubkey_ok |-> TRUE,
     channel_ok |-> TRUE, notify_ok |-> TRUE, carrier_ok |-> TRUE, post_ok |-> TRUE,
     error |-> "unknown_error"]

Envs ==
    {AllOk,
     [AllOk EXCEPT !.has_send = FALSE, !.has_channel = FALSE],
     [AllOk EXCEPT !.node_ok = FALSE, !.error = "user_not_found"],
     [AllOk EXCEPT !.node_ok = FALSE, !.pubkey_ok = FALSE, !.error = "user_not_found"],
     [AllOk EXCEPT !.node_ok = FALSE, !.pubkey_ok = FALSE,
                   !.error = "no_delivery_confirmation"],
     [AllOk EXCEPT !.channel_ok = FALSE],
     [AllOk EXCEPT !.channel_ok = FALSE, !.notify_ok = FALSE],
     [AllOk EXCEPT !.carrier_ok = FALSE],
     [AllOk EXCEPT !.post_ok = FALSE]}

MainUnchanged ==
    UNCHANGED <<entry, variant, config, daily_counts, last_reset, message_history, store, today, tick,
                timer_due, tasks, restarts, faults, cmds_today>>

\* the webhook of the simple gateway
SimpleWebhookPost(from_number, message_body, env) ==
    /\ variant = "simple"
    /\ started < MaxEvents
    /\ LET h == simple_handle_webhook(from_number, message_body, config, env)
       IN  /\ last' = [op |-> "simple_webhook", h |-> h]
           /\ stats' = [stats EXCEPT !.messages_received =
                                         IF h.outcome = "missing" THEN @ ELSE @ + 1]
    /\ started' = started + 1
    /\ MainUnchanged

\* an event on the bus of the simple gateway
SimpleMeshEvent(event, env) ==
    /\ variant = "simple"
    /\ started < MaxEvents
    /\ LET r == simple_handle_meshcore_event(event.event_type, event, config, stats, env)
       IN  /\ last' = [op |-> "simple_mesh_event", h |-> r.h]
           /\ stats' = [stats EXCEPT !.messages_sent = r.sent]
    /\ started' = started + 1
    /\ MainUnchanged

\* the webhook of the enhanced integration
EnhancedWebhookPost(from_number, message_body, env) ==
    /\ variant = "enhanced"
    /\ started < MaxEvents
    /\ LET r == handle_sms_enhanced(from_number, message_body, stats, env)
       IN  /\ last' = [op |-> "enhanced_webhook", h |-> r.h]
           /\ stats' = [stats EXCEPT !.msg_times = r.msg_times]
    /\ started' = started + 1
    /\ MainUnchanged

\* a "meshcore_raw_event" on the bus of the enhanced integration
EnhancedMeshEvent(event, env) ==
    /\ variant = "enhanced"
    /\ started < MaxEvents
    /\ last' = [op |-> "enhanced_mesh_event", h |-> on_meshcore_event_enhanced(event, env)]
    /\ stats' = [stats EXCEPT !.msg_times = @ + 1]
    /\ started' = started + 1
    /\ MainUnchanged

InitRepo ==
    /\ config \in Configs
    /\ daily_counts = EmptyCounts
    /\ last_reset = [day |-> 0, tick |-> 0]
    /\ message_history = <<>>
    /\ store = NoData
    /\ today = 0
    /\ tick = 0
    /\ timer_due = FALSE
    /\ tasks = [t \in Slots |-> Idle]
    /\ started = 0
    /\ restarts = 0
    /\ faults = 0
    /\ cmds_today = NoCommands
    /\ last = [op |-> "init", h |-> Idle]
    /\ variant \in {"main", "simple", "enhanced"}
    /\ stats = NoStats
    /\ entry = OneInstance

NextRepo ==
    \/ variant = "main" /\ Next
    \/ \E body \in SimpleBodies, env \in Envs : SimpleWebhookPost(PhoneX, body, env)
    \/ \E event \in SimpleMeshEvents, env \in Envs : SimpleMeshEvent(event, env)
    \/ \E body \in EnhancedBodies, env \in Envs : EnhancedWebhookPost(PhoneX, body, env)
    \/ \E event \in EnhancedEvents, env \in Envs : EnhancedMeshEvent(event, env)

SpecRepo == InitRepo /\ [][NextRepo]_vars

(***************************************************************************)
(* The config entry unloaded, set up again and reloaded in one process:    *)
(* every instance made keeps its own daily_counts (entry.counts), and a    *)
(* mesh event is handled by every instance whose listener is on the bus,   *)
(* each up to its first suspension.                                        *)
(***************************************************************************)
\* async_unload of instance i: the timer is cancelled and the webhook is
\* unregistered; what bus.async_listen returned was not kept, so the listener
\* stays
async_unload(e, i) ==
    [e EXCEPT !.timers = @ \ {i}, !.webhooks = @ \ {i}]

\* async_setup of a new instance, which has loaded counts from the store
async_setup(e, counts) ==
    LET i == e.made + 1
    IN  [loaded |-> i, made |-> i, listeners |-> e.listeners \cup {i},
         timers |-> e.timers \cup {i}, webhooks |-> e.webhooks \cup {i},
         counts |-> Append(e.counts, counts)]

\* async_unload_entry: the instance is taken out of hass.data and unloaded,
\* which saves its data
UnloadEntry ==
    /\ variant = "main"
    /\ entry.loaded # 0
    /\ entry' = [async_unload(entry, entry.loaded) EXCEPT !.loaded = 0]
    /\ store' = async_save(store, SaveData(entry.counts[entry.loaded], message_history,
                                           last_reset), TRUE)
    /\ Step("unload_entry")
    /\ UNCHANGED <<variant, stats, config, daily_counts, last_reset, message_history, today,
                   tick, timer_due, tasks, started, restarts, faults, cmds_today>>

\* async_setup_entry: a new instance is constructed, loads the store and
\* registers its services, webhook, listener and timer
SetupEntry ==
    /\ variant = "main"
    /\ entry.loaded = 0
    /\ entry.made < MaxInstances
    /\ entry' = async_setup(entry, LoadData(store, Now).daily_counts)
    /\ Step("setup_entry")
    /\ UNCHANGED <<variant, stats, config, daily_counts, last_reset, message_history, store,
                   today, tick, timer_due, tasks, started, restarts, faults, cmds_today>>

\* async_reload_entry: async_unload_entry, then async_setup_entry
ReloadEntry ==
    /\ variant = "main"
    /\ entry.loaded # 0
    /\ entry.made < MaxInstances
    /\ LET data == async_save(store, SaveData(entry.counts[entry.loaded], message_history,
                                              last_reset), TRUE)
       IN  /\ store' = data
           /\ entry' = async_setup([async_unload(entry, entry.loaded) EXCEPT !.loaded = 0],
                                   LoadData(data, Now).daily_counts)
    /\ Step("reload_entry")
    /\ UNCHANGED <<variant, stats, config, daily_counts, last_reset, message_history, today,
                   tick, timer_due, tasks, started, restarts, faults, cmds_today>>

\* "meshcore.message_received" is fired: every listener on the bus creates a
\* task that runs _process_meshcore_message of its instance; runs is the
\* number of instances that took the event as addressed to the bot
EntryMeshEvent(data) ==
    /\ variant = "main"
    /\ started < MaxEvents
    /\ LET r(i) == process_meshcore_message(data, entry.counts[i], message_history, config,
                                            TRUE)
           first == CHOOSE i \in entry.listeners : \A j \in entry.listeners : i <= j
           handling == {i \in entry.listeners : r(i).h.outcome # "ignored"}
       IN  /\ entry' = [entry EXCEPT !.counts = [i \in 1..entry.made |->
                                                   IF i \in entry.listeners
                                                   THEN r(i).counts ELSE entry.counts[i]]]
           /\ last' = [op |-> "entry_mesh_event",
                       h |-> [r(first).h EXCEPT !.runs = Cardinality(handling)]]
    /\ started' = started + 1
    /\ UNCHANGED <<variant, stats, config, daily_counts, last_reset, message_history, store,
                   today, tick, timer_due, tasks, restarts, faults, cmds_today>>

NextReload ==
    \/ UnloadEntry
    \/ SetupEntry
    \/ ReloadEntry
    \/ \E data \in MeshEvents : EntryMeshEvent(data)

SpecReload == Init /\ [][NextReload]_vars

(***************************************************************************)
(* Claims.                                                                 *)
(***************************************************************************)
\* the mesh handlers of a sender that passed the rate-limit check and whose
\* carrier send has not returned
InFlightSends(sender_id) ==
    {t \in Slots : tasks[t].kind = "mesh" /\ tasks[t].pc = "await_carrier"
                   /\ tasks[t].sender = sender_id}

\* C1: in every reachable state every sender's daily count is at most the
\* configured daily_limit.
CountWithinLimit ==
    \A s \in DOMAIN daily_counts : daily_counts[s] <= config.daily_limit

\* C2: the check and the reservation are atomic per sender: the sends counted
\* for a sender plus its commands that passed the check and are at the carrier
\* never exceed daily_limit (so with count = daily_limit - 1 at most one of two
\* concurrent commands is sent).
ReservationAtomic ==
    \A s \in Senders :
        Get(daily_counts, s) + Cardinality(InFlightSends(s)) <= config.daily_limit

\* C3: with valid commands handled one after another and a carrier that always
\* succeeds, the k-th command of a sender on a day is sent to the carrier
\* exactly once, brings the count up by one and is confirmed when
\* k <= daily_limit, and gets the limit-reached reply and no send when
\* k > daily_limit.
SequentialCommandsServed ==
    LET h == last.h
        k == cmds_today[h.sender]
    IN  /\ last.op = "mesh_event" =>
              IF k <= config.daily_limit
              THEN /\ h.pc = "await_carrier"
                   /\ Len(h.sends) = 1
                   /\ h.mesh = <<>>
              ELSE /\ h.outcome = "rate_limited"
                   /\ h.sends = <<>>
                   /\ Len(h.mesh) = 1
                   /\ h.mesh[1].recipient = h.sender
                   /\ h.mesh[1].message.fmt = "Daily limit reached ({} messages)"
        /\ last.op = "carrier_return" =>
              /\ h.outcome = "sent"
              /\ Len(h.sends) = 1
              /\ k <= config.daily_limit
              /\ Len(h.mesh) = 1
              /\ h.mesh[1].recipient = h.sender
              /\ h.mesh[1].message.fmt = "SMS sent to {}"

\* the text is an SMS command that fails validation
FailsValidation(text) ==
    /\ text # <<>>
    /\ SplitAll(Upper(text))[1] = <<"S","M","S">>
    /\ \/ Len(SplitAll(text)) < 3
       \/ ~PHONE_REGEX(SplitAll(text)[2])

\* C4: an SMS command that fails validation produces exactly one error reply
\* to its sender, no carrier send, and leaves every count and the history
\* unchanged.
ValidationFailureHarmless ==
    [][(last'.op = "mesh_event" /\ last'.h.outcome # "ignored"
        /\ FailsValidation(last'.h.text))
       => /\ last'.h.pc = "done"
          /\ Len(last'.h.mesh) = 1
          /\ last'.h.mesh[1].recipient = last'.h.sender
          /\ last'.h.mesh[1].message.fmt \in
                {"Invalid format. Use: SMS <phone> <message>",
                 "Invalid phone number format: {}"}
          /\ last'.h.sends = <<>>
          /\ daily_counts' = daily_counts
          /\ message_history' = message_history
          /\ \A t \in Slots : tasks'[t] = tasks[t]]_vars

\* C4 witness: a command with two tokens was answered with the format error.
FormatErrorReplied ==
    /\ last.op = "mesh_event"
    /\ last.h.text = TextSmsNoBody
    /\ last.h.outcome = "invalid_format"
    /\ Len(last.h.mesh) = 1

\* C5 as stated: `SMS 12345 hi` is answered with "Invalid phone" and no carrier
\* send is made.
Sms12345Rejected ==
    (last.op = "mesh_event" /\ last.h.text = TextSms12345)
    => /\ last.h.outcome = "invalid_phone"
       /\ last.h.sends = <<>>

\* C5 amended: `SMS 12345 hi` passes the phone pattern (five digits, the first
\* not 0): it is never answered with "Invalid phone", and is sent to the
\* carrier unless the sender's limit is reached; a phone token the pattern
\* rejects, as in `sms 012345 hi`, is answered with "Invalid phone" and no
\* carrier send is made.
Sms12345Accepted ==
    /\ (last.op = "mesh_event" /\ last.h.text = TextSms12345)
       => /\ last.h.outcome # "invalid_phone"
          /\ \A i \in 1..Len(last.h.mesh) :
                last.h.mesh[i].message.fmt # "Invalid phone number format: {}"
          /\ \/ last.h.pc = "await_carrier" /\ Len(last.h.sends) = 1
                /\ last.h.sends[1].to = <<"1","2","3","4","5">>
             \/ last.h.outcome = "rate_limited" /\ last.h.sends = <<>>
    /\ (last.op = "mesh_event" /\ last.h.text = TextSmsZero)
       => /\ last.h.outcome = "invalid_phone"
          /\ Len(last.h.mesh) = 1
          /\ last.h.mesh[1].message =
                [fmt |-> "Invalid phone number format: {}",
                 args |-> <<(<<"0","1","2","3","4","5">>)>>]
          /\ last.h.sends = <<>>

\* C5 witness: `SMS 12345 hi` is at the carrier.
Sms12345AtCarrier ==
    /\ last.op = "mesh_event"
    /\ last.h.text = TextSms12345
    /\ last.h.pc = "await_carrier"
    /\ Len(last.h.sends) = 1

\* C6: when the carrier send of a valid, within-limit command fails, the
\* sender gets the generic failure reply, the carrier was tried exactly once,
\* and neither step of the command changes the sender's count or the history.
CarrierFailureHandled ==
    [][/\ (last'.op = "carrier_return" /\ last'.h.outcome = "send_failed")
          => /\ last'.h.pc = "done"
             /\ Len(last'.h.sends) = 1
             /\ Len(last'.h.mesh) = 1
             /\ last'.h.mesh[1].recipient = last'.h.sender
             /\ last'.h.mesh[1].message.fmt = "Failed to send SMS. Please try again."
             /\ \A s \in Senders : Get(daily_counts', s) = Get(daily_counts, s)
             /\ message_history' = message_history
       /\ (last'.op = "mesh_event" /\ last'.h.pc = "await_carrier")
          => /\ Len(last'.h.sends) = 1
             /\ \A s \in Senders : Get(daily_counts', s) = Get(daily_counts, s)
             /\ message_history' = message_history
       /\ (last'.op = "carrier_return" /\ last'.h.outcome = "sent")
          => message_history' # message_history]_vars

\* C6 witness: a command ended with the failure reply after one carrier attempt.
CarrierFailureReplied ==
    /\ last.op = "carrier_return"
    /\ last.h.outcome = "send_failed"
    /\ Len(last.h.sends) = 1
    /\ Len(last.h.mesh) = 1
    /\ ~last.h.raised

\* C7: the history in memory and every snapshot in storage hold at most
\* max_history entries.
HistoryBounded ==
    /\ Len(message_history) <= max_history
    /\ store.present => Len(store.message_history) <= max_history

\* the steps that record an entry to the history
Recorded == message_history' # message_history /\ Len(message_history') > Len(message_history)

\* C8: when an entry is recorded to a history that already holds max_history
\* entries, the oldest is dropped: the history is then the max_history most
\* recent entries in recording order.
HistoryEvictsOldest ==
    [][(Recorded /\ Len(message_history) >= max_history)
       => message_history' =
             TakeLast(Append(message_history, message_history'[Len(message_history')]),
                      max_history)]_vars

\* C9: a save followed by a load, with no day change since the counts were last
\* reset, reproduces every sender's count and the history.
SaveLoadRoundTrip ==
    [][(last'.op = "reload" /\ last_reset.day = today)
       => /\ \A s \in Senders : Get(daily_counts', s) = Get(daily_counts, s)
          /\ message_history' = message_history]_vars

\* C10: a load of data whose last_reset date is before today leaves every count
\* zero and last_reset today; a load of data whose last_reset date is today
\* restores exactly the stored counts.
LoadAppliesDailyReset ==
    [][(last'.op \in {"reload", "crash_restart"} /\ store'.present)
       => IF store'.last_reset[1] < today
          THEN /\ \A s \in Senders : Get(daily_counts', s) = 0
               /\ last_reset'.day = today
          ELSE store'.last_reset[1] = today
               => /\ DOMAIN daily_counts' = {m[1] : m \in store'.daily_counts}
                  /\ \A m \in store'.daily_counts : daily_counts'[m[1]] = m[2]]_vars

\* C10 witness: counts saved on an earlier day were cleared by the load.
StaleCountsCleared ==
    /\ last.op \in {"reload", "crash_restart"}
    /\ store.present
    /\ store.last_reset[1] < today
    /\ \E m \in store.daily_counts : m[2] > 0
    /\ \A s \in Senders : Get(daily_counts, s) = 0
    /\ last_reset.day = today

\* the state an observer of the gateway sees: the counts of the senders, the
\* history and the date of the last reset
Observable(counts, history, reset) ==
    [counts |-> [s \in Senders |-> Get(counts, s)], history |-> history, day |-> reset.day]

\* C11: the daily reset is idempotent: the reset called again on the same day,
\* at the same or a later time and with no operation in between, leaves the
\* counts, the history and the last-reset date as the first call left them.
DailyResetIdempotent ==
    [][last'.op = "daily_reset"
       => LET once == async_daily_reset(daily_counts, message_history, Now)
          IN  /\ Observable(daily_counts', message_history', last_reset')
                   = Observable(once.daily_counts, once.message_history, once.last_reset)
              /\ \A later \in tick..(tick + 1) :
                    LET twice == async_daily_reset(once.daily_counts, once.message_history,
                                                   [day |-> today, tick |-> later])
                    IN  Observable(twice.daily_counts, twice.message_history,
                                   twice.last_reset)
                           = Observable(once.daily_counts, once.message_history,
                                        once.last_reset)]_vars

\* C11 witness: the reset ran on a gateway that holds history, and cleared the counts.
ResetWithHistory ==
    /\ last.op = "daily_reset"
    /\ message_history # <<>>
    /\ daily_counts = EmptyCounts
    /\ last_reset.day = today

\* the carrier sends logged for a sender's commands on a day
SendsOn(day, sender_id) ==
    Cardinality({i \in 1..Len(message_history) :
                    /\ message_history[i].direction = "outgoing"
                    /\ message_history[i].sender = sender_id
                    /\ ParseDatetime(message_history[i].timestamp).day = day})

\* C12: the counts are reset once per calendar day, at or after the first
\* operation of the day: the count a rate-limit check reads is the number of
\* the sender's sends made that day, and a reset never clears a count of sends
\* made earlier on the same day.
CountIsOfToday ==
    [][/\ (last'.op = "mesh_event"
           /\ (last'.h.outcome = "rate_limited" \/ last'.h.pc = "await_carrier"))
          => Get(daily_counts', last'.h.sender) = SendsOn(today, last'.h.sender)
       /\ last'.op = "daily_reset"
          => \A s \in Senders : Get(daily_counts, s) > 0 => SendsOn(today, s) = 0]_vars

\* C13: an inbound SMS whose body does not start with "@", received while
\* broadcast is disabled, is recorded to the history and dropped: no mesh
\* service is called for it and no SMS is sent in reply.
SilentDropWhenBroadcastDisabled ==
    [][(/\ last'.h.kind = "webhook"
        /\ last'.h.text # <<>>
        /\ ~StartsWith(last'.h.text, "@")
        /\ ~config.enable_broadcast)
       => /\ last'.h.mesh = <<>>
          /\ last'.h.sends = <<>>
          /\ last'.op = "webhook_post"
             => /\ Len(message_history') = Len(message_history) + 1
                /\ message_history'[Len(message_history')].direction = "incoming"
                /\ message_history'[Len(message_history')].message = last'.h.text]_vars

\* the number of incoming entries of a history
Incoming(history) ==
    Cardinality({i \in 1..Len(history) : history[i].direction = "incoming"})

InboundAlwaysRecorded ==
    [][last'.h.kind = "webhook"
       => IF last'.op = "webhook_post"
          THEN IF last'.h.phone # <<>> /\ last'.h.text # <<>>
               THEN /\ Len(message_history') = Len(message_history) + 1
                    /\ SubSeq(message_history', 1, Len(message_history)) = message_history
                    /\ LET e == message_history'[Len(message_history')]
                       IN  /\ e.direction = "incoming"
                           /\ e.phone = last'.h.phone
                           /\ e.message = last'.h.text
               ELSE message_history' = message_history
          ELSE /\ Incoming(message_history') = Incoming(message_history)
               /\ \E i \in 1..Len(message_history') :
                     /\ message_history'[i].direction = "incoming"
                     /\ message_history'[i].message = last'.h.text]_vars

\* C17 witness: an inbound SMS whose mesh send failed is in the history.
RecordedDespiteMeshFailure ==
    /\ last.op = "hook_mesh_return"
    /\ last.h.outcome = "mesh_failed"
    /\ \E i \in 1..Len(message_history) :
          /\ message_history[i].direction = "incoming"
          /\ message_history[i].message = last.h.text

RecipientResolutionOrder ==
    LET h == last.h
    IN  (h.kind = "webhook" /\ h.recipient # BroadcastName /\ h.mesh # <<>>) =>
            /\ h.mesh[1].key \in {"node_id", "recipient"}
            /\ Len(h.mesh) <= 2
            /\ Len(h.mesh) = 2 =>
                   h.mesh[2].key = "pubkey_prefix" /\ EnhancedHexLike(h.recipient)

\* what the simple gateway logs when a mesh send was not made or failed
MeshFailureLogs ==
    {"meshcore.send_message service not found",
     "meshcore.send_channel_message service not found",
     "Failed to send by pubkey_prefix", "Could not send - node_id not found",
     "Failed to send channel message", "Broadcast disabled"}

\* the webhook handler has ended after a mesh call that succeeded
DeliveredToMesh ==
    LET h == last.h
    IN  /\ h.kind = "webhook" /\ h.pc = "done" /\ h.mesh # <<>>
        /\ \/ last.op \in {"hook_mesh_return", "hook_carrier_return"}
              /\ h.outcome \in {"routed", "save_failed"}
           \/ last.op = "simple_webhook"
              /\ h.outcome = "routed"
              /\ \A i \in 1..Len(h.log) : h.log[i] \notin MeshFailureLogs

\* C16: when a webhook handler of the gateway or of the simple gateway ends
\* after a successful mesh delivery, it has made exactly one carrier call, to
\* the number the SMS came from and with the text "Message delivered to
\* MeshCore network", if delivery_confirmation is enabled, and no carrier call
\* if it is disabled.
ConfirmationAfterDelivery ==
    DeliveredToMesh =>
        IF config.delivery_confirmation
        THEN /\ Len(last.h.sends) = 1
             /\ last.h.sends[1].to = last.h.phone
             /\ last.h.sends[1].body[4] =
                    <<"M","e","s","s","a","g","e"," ","d","e","l","i","v","e","r","e","d"," ",
                      "t","o"," ","M","e","s","h","C","o","r","e"," ","n","e","t","w","o","r","k">>
        ELSE last.h.sends = <<>>

ConfirmationSentOnce ==
    /\ DeliveredToMesh
    /\ last.op = "hook_carrier_return"
    /\ config.delivery_confirmation
    /\ Len(last.h.sends) = 1

\* C18: a webhook handler of any implementation that has ended, has ended by
\* returning (nothing, which the webhook component answers with 200, or a
\* response with status 200) and has raised nothing, whatever failed on the way.
WebhookAlwaysAcknowledged ==
    (last.h.kind = "webhook" /\ last.h.pc = "done") =>
        /\ ~last.h.raised
        /\ last.h.ack \in {"returned_none", "response_200"}

AcknowledgedAfterMeshFailure ==
    /\ last.h.kind = "webhook" /\ last.h.pc = "done"
    /\ last.op = "hook_mesh_return"
    /\ last.h.outcome = "mesh_failed"
    /\ last.h.ack = "returned_none"

\* the step made no carrier call and no mesh call and left counts and history alone
EventIgnored ==
    /\ last'.h.sends = <<>>
    /\ last'.h.mesh = <<>>
    /\ daily_counts' = daily_counts
    /\ message_history' = message_history

\* C19: in each of the three implementations, the step that handles a mesh
\* event whose recipient is not the bot makes no carrier call and no mesh
\* call and changes neither the counts nor the history.
ForeignEventsIgnored ==
    [][/\ \A data \in MeshEvents, mesh_ok \in BOOLEAN :
             (data.recipient # CONF_BOT_NAME /\ MeshEvent(data, mesh_ok)) => EventIgnored
       /\ \A event \in SimpleMeshEvents, env \in Envs :
             (event.recipient # CONF_BOT_NAME /\ SimpleMeshEvent(event, env)) => EventIgnored
       /\ \A event \in EnhancedEvents, env \in Envs :
             (event.recipient # CONF_BOT_NAME /\ EnhancedMeshEvent(event, env)) => EventIgnored
      ]_vars

\* C21: the step that handles HELP (or ?), STATUS or LIST makes no carrier
\* call and leaves every sender's count and the history as they were, and its
\* reply shows the values of that moment: the sender's count (HELP, STATUS),
\* the sum of the counts (STATUS), the last ListWindow history entries (LIST).
ReadOnlyCommands ==
    [][(last'.op = "mesh_event" /\ last'.h.outcome \in {"help", "status", "list"})
       => LET h == last'.h
              shown == h.mesh[1].message.args
              n == IF Len(message_history) < ListWindow THEN Len(message_history)
                   ELSE ListWindow
          IN  /\ h.sends = <<>>
              /\ \A s \in Senders : Get(daily_counts', s) = Get(daily_counts, s)
              /\ message_history' = message_history
              /\ Len(h.mesh) = 1 /\ h.mesh[1].recipient = h.sender
              /\ h.outcome = "help" => shown[2] = Get(daily_counts, h.sender)
              /\ h.outcome = "status"
                    => /\ shown[1] = Get(daily_counts, "A") + Get(daily_counts, "B")
                       /\ shown[2] = Get(daily_counts, h.sender)
              /\ h.outcome = "list"
                    => /\ Len(shown) = n
                       /\ \A i \in 1..n :
                             LET e == message_history[Len(message_history) - n + i]
                             IN  /\ shown[i][3] = TakeLast(e.phone, 4)
                                 /\ shown[i][4] = TakeFirst(e.message, 30)]_vars

HelpShowsUsage ==
    /\ last.op = "mesh_event"
    /\ last.h.outcome = "help"
    /\ Get(daily_counts, last.h.sender) >= 1
    /\ last.h.mesh[1].message.args[2] = Get(daily_counts, last.h.sender)

\* C22: the step in which the save after a successful SMS command or after
\* an inbound webhook fails leaves the store as it was and takes nothing back
\* from memory: the counts keep the increment and the history keeps the
\* entries made before the save.
FailedSaveKeepsMemory ==
    [][/\ (\E t \in Slots : ReplyReturn(t, TRUE, FALSE))
          => /\ daily_counts' = daily_counts
             /\ message_history' = message_history
             /\ \E i \in 1..Len(message_history') :
                   /\ message_history'[i].direction = "outgoing"
                   /\ message_history'[i].phone = last'.h.phone
             /\ store' = store
       /\ (\E t \in Slots : HookMeshReturn(t, TRUE, FALSE))
          => /\ daily_counts' = daily_counts
             /\ message_history' = message_history
             /\ \E i \in 1..Len(message_history') :
                   message_history'[i] = [message_history'[i] EXCEPT
                                            !.direction = "incoming",
                                            !.phone = last'.h.phone,
                                            !.message = last'.h.text]
             /\ store' = store
       /\ (\E t \in Slots : HookCarrierReturn(t, TRUE, FALSE))
          => /\ daily_counts' = daily_counts
             /\ Len(message_history') = Len(message_history) + 1
             /\ SubSeq(message_history', 1, Len(message_history)) = message_history
             /\ message_history'[Len(message_history')].direction = "outgoing"
             /\ store' = store
      ]_vars

MemoryAheadOfStore ==
    /\ last.op = "hook_carrier_return"
    /\ last.h.outcome = "save_failed"
    /\ Len(message_history) >= 2
    /\ store.present
    /\ Len(store.message_history) < Len(message_history)

\* the mesh commands that have started and not finished
RunningCommands == {t \in Slots : tasks[t].kind = "mesh" /\ tasks[t].pc # "idle"}

\* C23: at most one mesh command is started and not yet finished; in
\* particular no command passes its rate-limit check while another awaits its
\* carrier send.
OneCommandAtATime ==
    /\ Cardinality(RunningCommands) <= 1
    /\ Cardinality({t \in RunningCommands : tasks[t].pc = "await_carrier"}) <= 1

\* a handler has just ended in a validation error, a rate-limit refusal, a
\* carrier failure, a mesh send failure or a failed save
EndedInError ==
    /\ last.h.pc = "done"
    /\ \/ last.h.outcome \in {"invalid_format", "invalid_phone", "rate_limited",
                              "send_failed", "mesh_failed", "save_failed"}
       \/ last.h.raised

SimpleLimitEnforced ==
    [][\A event \in SimpleMeshEvents, env \in Envs :
          (/\ stats.messages_sent >= config.daily_limit
           /\ SimpleMeshEvent(event, env))
          => last'.h.sends = <<>>]_vars

\* C26: the simple gateway runs _process_meshcore_message at most once for
\* one fired event, so one SMS command causes at most one carrier call.
SimpleEventProcessedOnce ==
    last.op = "simple_mesh_event" => last.h.runs <= 1 /\ Len(last.h.sends) <= 1

\* C27: a mesh event fired while no instance is loaded is handled by none,
\* and across setup, unload and reload a mesh event addressed to the bot is
\* handled by at most one gateway instance.
HandledByOneInstance ==
    last.op = "entry_mesh_event"
        => /\ last.h.runs <= 1
           /\ entry.loaded = 0 => last.h.runs = 0

\* C28: a webhook handler of the gateway or of the simple gateway that ends
\* without a successful mesh delivery (the message was dropped, the mesh
\* service is missing, or every mesh send failed) has made no carrier call.
ConfirmationOnlyAfterDelivery ==
    (/\ last.op \in {"webhook_post", "hook_mesh_return", "hook_carrier_return",
                     "simple_webhook"}
     /\ last.h.kind = "webhook" /\ last.h.pc = "done"
     /\ ~DeliveredToMesh)
        => last.h.sends = <<>>

\* C29: a step changes a sender's count only when a mesh SMS command's
\* carrier send succeeded (that sender's count rises by 1, the others stay)
\* or when the daily reset clears them all; a new instance starts with the
\* stored counts or, on a later day, with none; the send_sms service call and
\* the webhook with its confirmation SMS leave every count as it was.
CountsChangeOnlyBySends ==
    [][/\ (/\ last'.op \notin {"reload", "crash_restart"}
           /\ \E s \in Senders : Get(daily_counts', s) # Get(daily_counts, s))
          => \/ /\ last'.op = "carrier_return"
                /\ last'.h.outcome = "sent"
                /\ \A s \in Senders :
                      Get(daily_counts', s)
                        = Get(daily_counts, s) + (IF s = last'.h.sender THEN 1 ELSE 0)
             \/ /\ last'.op = "daily_reset"
                /\ \A s \in Senders : Get(daily_counts', s) = 0
       /\ last'.op \in {"reload", "crash_restart"}
          => \/ \A s \in Senders : Get(daily_counts', s) = 0
             \/ /\ store'.present
                /\ daily_counts' = FromJsonObject(store'.daily_counts)
       /\ last'.op \in {"service_call", "service_carrier_return", "webhook_post",
                        "hook_mesh_return", "hook_carrier_return"}
          => \A s \in Senders : Get(daily_counts', s) = Get(daily_counts, s)]_vars

\* a service-call send made for a gateway whose only sender is at the limit:
\* two carrier sends that day, one counted
UncountedServiceSend ==
    /\ last.op = "service_carrier_return"
    /\ last.h.outcome = "sent"
    /\ today = 0
    /\ config.daily_limit = 1
    /\ Get(daily_counts, "A") = 1 /\ Get(daily_counts, "B") = 0
    /\ Cardinality({i \in 1..Len(message_history) :
                       message_history[i].direction = "outgoing"}) = 2

\* C30: in the gateway and in the simple gateway, the handling of a mesh
\* message whose text is empty or only whitespace makes no mesh call and no
\* carrier call and ends without raising.
BlankTextIgnored ==
    (last.op \in {"mesh_event", "simple_mesh_event"} /\ Strip(last.h.text) = <<>>)
        => /\ last.h.mesh = <<>>
           /\ last.h.sends = <<>>
           /\ ~last.h.raised
====
